---- MODULE Spec2Model ----
(***************************************************************************)
(* Session cache (src/src/utils/sessionCache.ts) and authentication        *)
(* orchestration (src/src/helpers/auth.ts) of testwright.                  *)
(*                                                                         *)
(* The cache directory is a map from paths to file contents.  Worker       *)
(* processes call the session-store functions and the two authenticate     *)
(* entry points; each await of the source is one step of a worker, so      *)
(* steps of different workers interleave and a worker may stop between     *)
(* any two of its steps.                                                   *)
(***************************************************************************)
EXTENDS Integers, Sequences, FiniteSets, TLC

VARIABLES
  now,        \* the wall clock read by new Date(), in ms
  dirExists,  \* whether the cache directory exists
  fs,         \* path -> content of the file at that path
  fd,         \* worker -> path its open writeFile handle points at
  pc,         \* worker -> the await it is suspended at
  call,       \* worker -> arguments and locals of the running call; seen is
              \* the session file its cache check found valid
  ctx,        \* worker -> its browser context and page
  last,       \* worker -> how its most recent call ended
  active,     \* the worker processes the test runner started
  calls,      \* number of calls made so far
  fresh,      \* key -> the record written by the last cached fresh login
  lastSave,   \* the worker whose saveSession returned most recently
  probe,      \* inputs and results of the evaluation of a pure function
  denied,     \* the paths (files, cache directory) the process may not read
  reporter    \* the fields of the TestCaseReporter and the run it reports on

vars == <<now, dirExists, fs, fd, pc, call, ctx, last, active, calls, fresh,
          lastSave, probe, denied, reporter>>

(***************************************************************************)
(* Bounds                                                                  *)
(***************************************************************************)
MaxCalls == 3

\* Calls of the session store's functions in a run over all keys.
MaxStoreCalls == 2

\* Test runs given to mergeTestRunResults, and results in one run.
MaxRuns == 2

MaxResults == 1

\* onTestEnd events delivered to the reporter in one run.
MaxTestEnds == 3

Workers == {"w1", "w2"}

(***************************************************************************)
(* JavaScript values                                                       *)
(***************************************************************************)
\* Objects are records; the other values are tagged records.
JsNull == [jsnull |-> TRUE]

Undefined == [undefined |-> TRUE]

Falsy(v) == v = JsNull \/ v = Undefined

\* obj.name for an object obj
Get(obj, name) == IF name \in DOMAIN obj THEN obj[name] ELSE Undefined

\* A string in a place that may also hold null.
Str(s) == [str |-> s]

Ok(v) == [threw |-> FALSE, value |-> v]

Throw(e) == [threw |-> TRUE, error |-> e]

\* Date objects: a time value in ms, or an Invalid Date.
InvalidDate == [valid |-> FALSE, ms |-> 0]

DateOf(ms) == [valid |-> TRUE, ms |-> ms]

\* Date.prototype.toISOString: the text "YYYY-MM-DDTHH:mm:ss.sssZ" of a time value
toISOString(d) == [iso |-> d.ms]

\* new Date(v): parses an ISO text back to its time value; anything else
\* (undefined, an object) gives an Invalid Date
NewDate(v) == IF "iso" \in DOMAIN v THEN DateOf(v.iso) ELSE InvalidDate

\* The comparison with >= in the place of >.
DateGe(a, b) == a.valid /\ b.valid /\ a.ms >= b.ms

\* The comparison with < in the place of <=.
DateLt(a, b) == a.valid /\ b.valid /\ a.ms < b.ms

\* a <= b on dates, false when one is NaN
DateLe(a, b) == a.valid /\ b.valid /\ a.ms <= b.ms

\* a > b on dates: the comparison of two time values, false when one is NaN
DateGt(a, b) == a.valid /\ b.valid /\ a.ms > b.ms

(***************************************************************************)
(* Program constants                                                       *)
(***************************************************************************)
DEFAULT_CACHE_DIR == ".auth"

DEFAULT_TTL == 24 * 60 * 60 * 1000

Environment == {"dev", "staging", "prod"}

appConfig ==
  [slug |-> "member-landing",
   type |-> "spa",
   domains |-> <<
     [domain |-> "domain-alpha",
      environments |-> <<
        [environment |-> "dev", baseUrl |-> "https://www-dev.domain-alpha.com"],
        [environment |-> "staging", baseUrl |-> "https://www-staging.domain-alpha.com"],
        [environment |-> "prod", baseUrl |-> "https://www.domain-alpha.com"] >>],
     [domain |-> "domain-beta",
      environments |-> <<
        [environment |-> "dev", baseUrl |-> "https://www-dev.domain-beta.com"],
        [environment |-> "staging", baseUrl |-> "https://www-staging.domain-beta.com"],
        [environment |-> "prod", baseUrl |-> "https://www.domain-beta.com"] >>] >>]

testUsers == <<
  [id |-> "member-1-dev-alpha", email |-> "member1@test.domain-alpha.com",
   type |-> "member", environment |-> "dev", domain |-> "domain-alpha"],
  [id |-> "admin-1-dev-alpha", email |-> "admin1@test.domain-alpha.com",
   type |-> "admin", environment |-> "dev", domain |-> "domain-alpha"],
  [id |-> "client-1-dev-beta", email |-> "client1@test.domain-beta.com",
   type |-> "client", environment |-> "dev", domain |-> "domain-beta"] >>

\* The user types a fixture may ask for.
UserType == {"member", "practitioner", "client", "admin", "guest"}

defaultUserType == "member"

\* The filter without the test of the type.
getUsersOfDeployment(users, type, environment, domain) ==
  SelectSeq(users, LAMBDA user :
    user.environment = environment /\ user.domain = domain)

getUsersByType(users, type, environment, domain) ==
  SelectSeq(users, LAMBDA user :
    user.type = type /\ user.environment = environment /\ user.domain = domain)

\* TEST_DOMAIN is not set: the first domain of the application
getTargetDomain(app) ==
  IF Len(app.domains) = 0 THEN Throw("Error") ELSE Ok(app.domains[1].domain)

\* TEST_ENV is not set
getTargetEnvironment == "dev"

\* The composite key (user, domain, environment) of a user's own deployment.
KeyOf(u) == [user |-> u, domain |-> u.domain, environment |-> u.environment]

\* The keys of all configured users.
StoreKeys == {KeyOf(testUsers[i]) : i \in DOMAIN testUsers}

\* The keys the authenticating workers use: the users of the default type on
\* the target domain and environment.
Keys ==
  LET users == getUsersByType(testUsers, defaultUserType, getTargetEnvironment,
                              getTargetDomain(appConfig).value)
  IN {KeyOf(users[i]) : i \in DOMAIN users}

\* The instants at which the clock is observed.
TimePoints == {0, DEFAULT_TTL - 1, DEFAULT_TTL}

\* The ttl option of a saveSession call; DEFAULT_TTL stands for "not given".
TtlOptions == {0, 1, DEFAULT_TTL}

(***************************************************************************)
(* Files                                                                   *)
(***************************************************************************)
NoFile == [kind |-> "nofile"]

EmptyText == [kind |-> "text", chars |-> ""]

GarbageText == [kind |-> "text", chars |-> "not json"]

\* JSON.stringify(v, null, 2): the complete JSON text of v
JSON_stringify(v) == [kind |-> "json", value |-> v]

\* A proper prefix (possibly empty) of a text: what the file holds between
\* the open with truncation and the last write of writeFile.
Torn(text) == [kind |-> "torn", value |-> text.value]

\* JSON.parse(text): the value of a complete JSON text, SyntaxError otherwise
JSON_parse(text) ==
  IF text.kind = "json" THEN Ok(text.value) ELSE Throw("SyntaxError")

\* path.join(dir, name)
join(dir, name) == dir \o "/" \o name

getSessionFilePath(userId, domain, environment, cacheDir) ==
  LET filename == userId \o "_" \o domain \o "_" \o environment \o ".json"
  IN join(cacheDir, filename)

sessionPathOf(k) ==
  getSessionFilePath(k.user.id, k.domain, k.environment, DEFAULT_CACHE_DIR)

\* The temporary path when the record is written in place.
tempPathInPlace(sessionPath) == sessionPath

tempPathOf(sessionPath) == sessionPath \o ".tmp"

Paths ==
  {sessionPathOf(k) : k \in StoreKeys} \cup {tempPathOf(sessionPathOf(k)) : k \in StoreKeys}

NoPath == ""

\* fs/promises readFile(path, "utf-8"): EACCES when the directory or the
\* file may not be read
readFile(path) ==
  IF DEFAULT_CACHE_DIR \in denied THEN Throw("EACCES")
  ELSE IF fs[path] = NoFile THEN Throw("ENOENT")
  ELSE IF path \in denied THEN Throw("EACCES")
  ELSE Ok(fs[path])

(***************************************************************************)
(* Browser state                                                           *)
(***************************************************************************)
getAppTypePrefix(appType) == IF appType = "spa" THEN "/s/" ELSE "/x/"

buildAppUrl(app, domain, environment) ==
  LET ds == {i \in DOMAIN app.domains : app.domains[i].domain = domain}
  IN IF ds = {} THEN Throw("Error")
     ELSE LET deployment == app.domains[CHOOSE i \in ds : \A j \in ds : i <= j]
              es == {i \in DOMAIN deployment.environments :
                       deployment.environments[i].environment = environment}
          IN IF es = {} THEN Throw("Error")
             ELSE LET envConfig ==
                        deployment.environments[CHOOSE i \in es : \A j \in es : i <= j]
                  IN Ok(envConfig.baseUrl \o getAppTypePrefix(app.type) \o app.slug)

appUrlOf(k) == buildAppUrl(appConfig, k.domain, k.environment).value

\* No context has been created.
NoContext == [none |-> TRUE]

\* A context the browser has just created.
FreshContext == [cookies |-> {}, origins |-> {}, url |-> "about:blank"]

\* What a login of a user leaves in the context: the cookie of the session
\* the auth provider opened for this login, and the application's
\* local-storage token.  Every login opens a session of its own.
AuthCookies(user, session) ==
  {[name |-> "sid", value |-> user.id \o "#" \o session]}

AuthOrigins(user, url) ==
  {[origin |-> url, localStorage |-> {[name |-> "token", value |-> user.id]}]}

\* context.storageState(): the cookies and local storage of a context
storageStateOf(c) == [cookies |-> c.cookies, origins |-> c.origins]

EmptyState == storageStateOf(FreshContext)

AuthState(k, session) ==
  [cookies |-> AuthCookies(k.user, session),
   origins |-> AuthOrigins(k.user, appUrlOf(k))]


(***************************************************************************)
(* Session store: pure parts                                               *)
(***************************************************************************)
\* The sessionFile object saveSession builds at time t.
SessionFile(user, domain, environment, storageState, ttl, t) ==
  [metadata |->
     [userId |-> user.id,
      domain |-> domain,
      environment |-> environment,
      createdAt |-> toISOString(DateOf(t)),
      expiresAt |-> toISOString(DateOf(t + ttl))],
   storageState |-> storageState]

\* readSessionFile: the parsed content, or null on any failure
readSessionFile(sessionPath) ==
  LET content == readFile(sessionPath)
  IN IF content.threw THEN JsNull
     ELSE LET parsed == JSON_parse(content.value)
          IN IF parsed.threw THEN JsNull ELSE parsed.value

\* isSessionValid at clock reading t: Ok(TRUE), Ok(FALSE), or the TypeError
\* of reading .expiresAt of an undefined metadata
isSessionValid(userId, domain, environment, t) ==
  LET sessionPath == getSessionFilePath(userId, domain, environment, DEFAULT_CACHE_DIR)
      sessionFile == readSessionFile(sessionPath)
  IN IF Falsy(sessionFile) THEN Ok(FALSE)
     ELSE IF Falsy(Get(sessionFile, "metadata")) THEN Throw("TypeError")
     ELSE LET expiresAt == NewDate(Get(sessionFile.metadata, "expiresAt"))
          IN Ok(DateGt(expiresAt, DateOf(t)))

isValidOf(k, t) == isSessionValid(k.user.id, k.domain, k.environment, t)

\* getSessionPath at clock reading t: the path when the session is valid,
\* null otherwise
getSessionPath(userId, domain, environment, t) ==
  LET sessionPath == getSessionFilePath(userId, domain, environment, DEFAULT_CACHE_DIR)
      isValid == isSessionValid(userId, domain, environment, t)
  IN IF isValid.threw THEN isValid
     ELSE IF isValid.value THEN Ok(Str(sessionPath)) ELSE Ok(JsNull)

\* The whole session file in the place of its storageState.
getStorageStateWhole(sessionPath) == readSessionFile(sessionPath)

\* sessionFile?.storageState ?? null
getStorageState(sessionPath) ==
  LET sessionFile == readSessionFile(sessionPath)
  IN IF Falsy(sessionFile) THEN JsNull
     ELSE IF Falsy(Get(sessionFile, "storageState")) THEN JsNull
     ELSE sessionFile.storageState

\* sessionFile?.metadata ?? null
getSessionMetadata(sessionPath) ==
  LET sessionFile == readSessionFile(sessionPath)
  IN IF Falsy(sessionFile) THEN JsNull
     ELSE IF Falsy(Get(sessionFile, "metadata")) THEN JsNull
     ELSE sessionFile.metadata

\* fs/promises readdir(cacheDir): the names in the directory
readdir(cacheDir) ==
  IF ~dirExists THEN Throw("ENOENT")
  ELSE IF cacheDir \in denied THEN Throw("EACCES")
  ELSE Ok({p \in Paths : fs[p] # NoFile})

\* The filter that keeps the other names.
endsWithTmp(f) == \A k \in StoreKeys : f # sessionPathOf(k)

\* f.endsWith(".json"), for the names the directory can hold
endsWithJson(f) == \E k \in StoreKeys : f = sessionPathOf(k)

\* A rename that does not happen.
notRenamed(f, from, to) == f

\* A rename that fails to replace an existing file.
renamedKeepingOld(f, from, to) ==
  IF f[to] # NoFile THEN f ELSE [f EXCEPT ![to] = f[from], ![from] = NoFile]

\* fs/promises rename(from, to) on a directory image f
renamed(f, from, to) ==
  IF from = to THEN f ELSE [f EXCEPT ![to] = f[from], ![from] = NoFile]

\* Where open handles point after rename(from, to): a handle follows its
\* file, and a handle on the replaced file is left on an unlinked one.
fdAfterRename(from, to) ==
  [w \in Workers |->
     IF from = to THEN fd[w]
     ELSE IF fd[w] = from THEN to
     ELSE IF fd[w] = to THEN NoPath
     ELSE fd[w]]

fdAfterUnlink(path) ==
  [w \in Workers |-> IF fd[w] = path THEN NoPath ELSE fd[w]]

\* An unlink that takes every file of the directory with it.
unlinkedAll(f, paths) == [p \in Paths |-> NoFile]

\* fs/promises unlink of each of the paths on a directory image f
unlinked(f, paths) == [p \in Paths |-> IF p \in paths THEN NoFile ELSE f[p]]

(***************************************************************************)
(* Calls                                                                   *)
(***************************************************************************)
NoCall == [op |-> "none"]

NoResult == [status |-> "none"]

NoFresh == [set |-> FALSE, expiresAt |-> 0]

\* The last cached login of a key is forgotten when its file is removed.
freshAfterUnlink(paths) ==
  [k \in StoreKeys |-> IF sessionPathOf(k) \in paths THEN NoFresh ELSE fresh[k]]

\* The key of a call that takes none.
NoKey == [user |-> [id |-> ""], domain |-> "", environment |-> ""]

\* files, cur, sessions, cleared and started are the locals of the
\* directory scans; userType is the fixture's option; prev is how the
\* caller's previous call ended and before is the directory it was made on.
NewCall(op, k, skip, ttl, state) ==
  [op |-> op, key |-> k, skip |-> skip, ttl |-> ttl, state |-> state,
   rec |-> JsNull, seen |-> JsNull, logins |-> 0, after |-> NoFresh,
   files |-> {}, cur |-> NoPath, sessions |-> <<>>, cleared |-> 0, started |-> 0,
   userType |-> defaultUserType, prev |-> NoResult, before |-> <<>>]

AuthOps == {"loginToApp", "startAuthenticatedSession"}

\* The user types the tests configure the fixture with: one that has a
\* user on the target domain and environment and one that has none.
FixtureTypes == {defaultUserType, "guest"}

AllCalls ==
  {NewCall("saveSession", k, FALSE, ttl, AuthState(k, "earlier")) :
     <<k, ttl>> \in Keys \X TtlOptions}
  \cup {NewCall(op, k, FALSE, DEFAULT_TTL, EmptyState) :
     <<op, k>> \in {"isSessionValid", "clearSession"} \X Keys}
  \cup {NewCall(op, k, skip, DEFAULT_TTL, EmptyState) :
     <<op, k, skip>> \in AuthOps \X Keys \X BOOLEAN}
  \cup {[NewCall("authenticatedContext", NoKey, FALSE, DEFAULT_TTL, EmptyState)
           EXCEPT !.userType = type] : type \in FixtureTypes}

\* The first await of each operation when skipSessionCache is not looked at.
EntryPointCached(c) ==
  CASE c.op = "loginToApp" -> "login_check"
    [] c.op = "startAuthenticatedSession" -> "start_check"
    [] c.op = "authenticatedContext" -> "fixture_lookup"
    [] c.op = "saveSession" -> "save_begin"
    [] c.op = "isSessionValid" -> "valid_check"
    [] c.op = "clearSession" -> "clear_unlink"
    [] c.op = "refreshAuth" -> "refresh_clear"

\* The first await of each operation.
EntryPoint(c) ==
  CASE c.op = "saveSession" -> "save_begin"
    [] c.op = "isSessionValid" -> "valid_check"
    [] c.op = "clearSession" -> "clear_unlink"
    [] c.op = "getSessionPath" -> "path_check"
    [] c.op = "getStorageState" -> "state_read"
    [] c.op = "getSessionMetadata" -> "metadata_read"
    [] c.op = "clearSessionCache" -> "clearall_readdir"
    [] c.op = "listSessions" -> "list_readdir"
    [] c.op = "clearExpiredSessions" -> "sweep_readdir"
    [] c.op = "loginToApp" -> IF c.skip THEN "login_perform" ELSE "login_check"
    [] c.op = "startAuthenticatedSession" ->
         IF c.skip THEN "login_perform" ELSE "start_check"
    [] c.op = "authenticatedContext" -> "fixture_lookup"
    [] c.op = "refreshAuth" -> "refresh_clear"

AuthCalls == {c \in AllCalls : c.op \in AuthOps}

\* The browser states a test passes to saveSession.
SavedStates(k) == {AuthState(k, "earlier"), AuthState(k, "later")}

KeyedStoreOps ==
  {"isSessionValid", "clearSession", "getSessionPath", "getStorageState",
   "getSessionMetadata"}

DirectoryOps == {"clearSessionCache", "listSessions", "clearExpiredSessions"}

\* The calls of the session store's exported functions; sessions are saved
\* for the users that authenticate.
StoreCalls ==
  {NewCall("saveSession", k, FALSE, ttl, state) :
     <<k, ttl, state>> \in
       {x \in Keys \X TtlOptions \X UNION {SavedStates(k) : k \in Keys} :
          x[3] \in SavedStates(x[1])}}
  \cup {NewCall(op, k, FALSE, DEFAULT_TTL, EmptyState) :
     <<op, k>> \in KeyedStoreOps \X StoreKeys}
  \cup {NewCall(op, NoKey, FALSE, DEFAULT_TTL, EmptyState) : op \in DirectoryOps}

\* A test calls one of the exported functions of the menu with a new context.
InvokeFrom(w, menu) ==
  /\ w \in active
  /\ pc[w] = "idle"
  /\ calls < MaxCalls
  /\ \E c \in menu :
       /\ call' = [call EXCEPT ![w] =
            [c EXCEPT !.after = IF c.key \in StoreKeys THEN fresh[c.key] ELSE NoFresh]]
       /\ pc' = [pc EXCEPT ![w] = EntryPoint(c)]
       /\ ctx' = [ctx EXCEPT ![w] =
            IF c.op = "authenticatedContext" THEN NoContext ELSE FreshContext]
  /\ last' = [last EXCEPT ![w] = NoResult]
  /\ calls' = calls + 1
  /\ UNCHANGED <<now, dirExists, fs, fd, active, fresh, lastSave, probe, denied, reporter>>

Invoke(w) == InvokeFrom(w, AllCalls)

\* How a call ended, without what came before it.
Ended(l) == IF "prev" \in DOMAIN l THEN [l EXCEPT !.prev = NoResult] ELSE l

\* A test calls one of the functions of the menu after its previous call.
InvokeAfter(w, menu) ==
  /\ w \in active
  /\ pc[w] = "idle"
  /\ calls < MaxStoreCalls
  /\ \E c \in menu :
       /\ call' = [call EXCEPT ![w] =
            [c EXCEPT !.prev = Ended(last[w]), !.before = fs]]
       /\ pc' = [pc EXCEPT ![w] = EntryPoint(c)]
  /\ ctx' = [ctx EXCEPT ![w] = FreshContext]
  /\ last' = [last EXCEPT ![w] = NoResult]
  /\ calls' = calls + 1
  /\ UNCHANGED <<now, dirExists, fs, fd, active, fresh, lastSave, probe, denied, reporter>>

InvokeStore(w) == InvokeAfter(w, StoreCalls)

\* The read operations of the session store.
ReadOps ==
  {"isSessionValid", "getSessionPath", "getStorageState", "getSessionMetadata",
   "listSessions"}

ReadCalls == {c \in StoreCalls : c.op \in ReadOps}

InvokeRead(w) == InvokeAfter(w, ReadCalls)

InvokeAuth(w) == InvokeFrom(w, AuthCalls)

\* The call of worker w returns (or rejects) with outcome ret.
Finish(w, c, ret) ==
  /\ pc' = [pc EXCEPT ![w] = "idle"]
  /\ call' = [call EXCEPT ![w] = NoCall]
  /\ last' = [last EXCEPT ![w] =
       [status |-> IF ret.threw THEN "threw" ELSE "ok",
        op |-> c.op, key |-> c.key, skip |-> c.skip, state |-> c.state,
        after |-> c.after, logins |-> c.logins, cleared |-> c.cleared,
        ret |-> ret, prev |-> c.prev]]

(***************************************************************************)
(* Session store: operations                                               *)
(***************************************************************************)
IsSessionValidStep(w) ==
  /\ pc[w] = "valid_check"
  /\ Finish(w, call[w], isValidOf(call[w].key, now))
  /\ UNCHANGED <<now, dirExists, fs, fd, ctx, active, calls, fresh, lastSave, probe, denied, reporter>>

\* clearSession: unlink, with ENOENT ignored
ClearSessionStep(w) ==
  /\ pc[w] = "clear_unlink"
  /\ LET sessionPath == sessionPathOf(call[w].key)
     IN /\ fs' = unlinked(fs, {sessionPath})
        /\ fd' = fdAfterUnlink(sessionPath)
        /\ Finish(w, [call[w] EXCEPT !.cleared = IF fs[sessionPath] = NoFile THEN 0 ELSE 1],
                  Ok(Undefined))
  /\ fresh' = [fresh EXCEPT ![call[w].key] = NoFresh]
  /\ UNCHANGED <<now, dirExists, ctx, active, calls, lastSave, probe, denied, reporter>>

\* saveSession up to the call of writeFile: mkdir -p, then the record is
\* built from the clock.  An authenticate call passes context.storageState().
SaveBegin(w) ==
  /\ pc[w] = "save_begin"
  /\ dirExists' = TRUE
  /\ LET c == call[w]
         storageState == IF c.op = "saveSession" THEN c.state
                         ELSE storageStateOf(ctx[w])
         sessionFile == SessionFile(c.key.user, c.key.domain, c.key.environment,
                                    storageState, c.ttl, now)
     IN call' = [call EXCEPT ![w].rec = sessionFile, ![w].state = storageState]
  /\ pc' = [pc EXCEPT ![w] = "save_open"]
  /\ UNCHANGED <<now, fs, fd, ctx, last, active, calls, fresh, lastSave, probe, denied, reporter>>

\* writeFile(tempPath, ...): the open, which creates or truncates the file
SaveOpen(w) ==
  /\ pc[w] = "save_open"
  /\ LET tempPath == tempPathOf(sessionPathOf(call[w].key))
     IN /\ fs' = [fs EXCEPT ![tempPath] = Torn(JSON_stringify(call[w].rec))]
        /\ fd' = [fd EXCEPT ![w] = tempPath]
  /\ pc' = [pc EXCEPT ![w] = "save_write"]
  /\ UNCHANGED <<now, dirExists, call, ctx, last, active, calls, fresh, lastSave, probe, denied, reporter>>

\* writeFile(tempPath, ...): the last write and the close
SaveWrite(w) ==
  /\ pc[w] = "save_write"
  /\ fs' = IF fd[w] = NoPath THEN fs
           ELSE [fs EXCEPT ![fd[w]] = JSON_stringify(call[w].rec)]
  /\ fd' = [fd EXCEPT ![w] = NoPath]
  /\ pc' = [pc EXCEPT ![w] = "save_rename"]
  /\ UNCHANGED <<now, dirExists, call, ctx, last, active, calls, fresh, lastSave, probe, denied, reporter>>

\* rename(tempPath, sessionPath) and the return of saveSession
SaveRename(w) ==
  /\ pc[w] = "save_rename"
  /\ LET c == call[w]
         sessionPath == sessionPathOf(c.key)
         tempPath == tempPathOf(sessionPath)
     IN IF fs[tempPath] = NoFile
        THEN /\ Finish(w, c, Throw("ENOENT"))
             /\ UNCHANGED <<fs, fd, fresh, lastSave>>
        ELSE /\ fs' = renamed(fs, tempPath, sessionPath)
             /\ fd' = fdAfterRename(tempPath, sessionPath)
             /\ lastSave' = w
             /\ IF c.op = "saveSession"
                THEN /\ Finish(w, c, Ok(sessionPath))
                     /\ fresh' = [fresh EXCEPT ![c.key] = NoFresh]
                ELSE /\ Finish(w, c, Ok("fresh"))
                     /\ fresh' = [fresh EXCEPT ![c.key] =
                          [set |-> TRUE, expiresAt |-> NewDate(c.rec.metadata.expiresAt).ms]]
  /\ UNCHANGED <<now, dirExists, ctx, active, calls, probe, denied, reporter>>

\* getSessionPath removing the file of a session it finds invalid.
GetSessionPathEvicting(w) ==
  /\ pc[w] = "path_check"
  /\ LET k == call[w].key
         sessionPath == getSessionPath(k.user.id, k.domain, k.environment, now)
     IN /\ Finish(w, call[w], sessionPath)
        /\ fs' = IF sessionPath = Ok(JsNull)
                 THEN unlinked(fs, {sessionPathOf(k)}) ELSE fs
  /\ UNCHANGED <<now, dirExists, fd, ctx, active, calls, fresh, lastSave, probe, denied, reporter>>

GetSessionPathStep(w) ==
  /\ pc[w] = "path_check"
  /\ LET k == call[w].key
     IN Finish(w, call[w], getSessionPath(k.user.id, k.domain, k.environment, now))
  /\ UNCHANGED <<now, dirExists, fs, fd, ctx, active, calls, fresh, lastSave, probe, denied, reporter>>

\* getStorageState on the path of the call's key
GetStorageStateStep(w) ==
  /\ pc[w] = "state_read"
  /\ Finish(w, call[w], Ok(getStorageState(sessionPathOf(call[w].key))))
  /\ UNCHANGED <<now, dirExists, fs, fd, ctx, active, calls, fresh, lastSave, probe, denied, reporter>>

\* getSessionMetadata on the path of the call's key
GetSessionMetadataStep(w) ==
  /\ pc[w] = "metadata_read"
  /\ Finish(w, call[w], Ok(getSessionMetadata(sessionPathOf(call[w].key))))
  /\ UNCHANGED <<now, dirExists, fs, fd, ctx, active, calls, fresh, lastSave, probe, denied, reporter>>

\* clearSessionCache: readdir and the filter; ENOENT is ignored, any other
\* error is thrown again
ClearCacheReaddir(w) ==
  /\ pc[w] = "clearall_readdir"
  /\ LET files == readdir(DEFAULT_CACHE_DIR)
     IN IF files.threw
        THEN Finish(w, call[w], IF files.error = "ENOENT" THEN Ok(Undefined) ELSE files)
        ELSE /\ call' = [call EXCEPT ![w].files = {f \in files.value : endsWithJson(f)}]
             /\ pc' = [pc EXCEPT ![w] = "clearall_unlink"]
             /\ UNCHANGED last
  /\ UNCHANGED <<now, dirExists, fs, fd, ctx, active, calls, fresh, lastSave, probe, denied, reporter>>

\* clearSessionCache: Promise.all of the unlinks; an ENOENT among them is
\* ignored like the one of readdir
ClearCacheUnlink(w) ==
  /\ pc[w] = "clearall_unlink"
  /\ LET sessionFiles == call[w].files
     IN /\ fs' = unlinked(fs, sessionFiles)
        /\ fd' = [v \in Workers |-> IF fd[v] \in sessionFiles THEN NoPath ELSE fd[v]]
        /\ fresh' = freshAfterUnlink(sessionFiles)
        /\ Finish(w, [call[w] EXCEPT !.cleared =
                       Cardinality({f \in sessionFiles : fs[f] # NoFile})],
                  Ok(Undefined))
  /\ UNCHANGED <<now, dirExists, ctx, active, calls, lastSave, probe, denied, reporter>>

\* The for loop of listSessions between two awaits: it returns when no
\* file is left.
ListLoop(w, c) ==
  IF c.files = {}
  THEN Finish(w, c, Ok(c.sessions))
  ELSE /\ call' = [call EXCEPT ![w] = c]
       /\ pc' = [pc EXCEPT ![w] = "list_read"]
       /\ UNCHANGED last

\* listSessions: readdir and the filter; ENOENT gives [], any other error
\* is thrown again
ListReaddir(w) ==
  /\ pc[w] = "list_readdir"
  /\ LET files == readdir(DEFAULT_CACHE_DIR)
     IN IF files.threw
        THEN Finish(w, call[w], IF files.error = "ENOENT" THEN Ok(<<>>) ELSE files)
        ELSE ListLoop(w, [call[w] EXCEPT !.files = {f \in files.value : endsWithJson(f)}])
  /\ UNCHANGED <<now, dirExists, fs, fd, ctx, active, calls, fresh, lastSave, probe, denied, reporter>>

\* listSessions: getSessionMetadata of the next file, in the order readdir
\* gave, which is any order
ListRead(w) ==
  /\ pc[w] = "list_read"
  /\ \E file \in call[w].files :
       LET metadata == getSessionMetadata(file)
       IN ListLoop(w, [call[w] EXCEPT
            !.files = @ \ {file},
            !.sessions = IF Falsy(metadata) THEN @ ELSE Append(@, metadata)])
  /\ UNCHANGED <<now, dirExists, fs, fd, ctx, active, calls, fresh, lastSave, probe, denied, reporter>>

\* The for loop of clearExpiredSessions between two awaits.
SweepLoop(w, c) ==
  IF c.files = {}
  THEN Finish(w, c, Ok(c.cleared))
  ELSE /\ call' = [call EXCEPT ![w] = c]
       /\ pc' = [pc EXCEPT ![w] = "sweep_read"]
       /\ UNCHANGED last

\* clearExpiredSessions: the clock is read, then readdir and the filter;
\* ENOENT gives 0, any other error is thrown again
SweepReaddir(w) ==
  /\ pc[w] = "sweep_readdir"
  /\ LET files == readdir(DEFAULT_CACHE_DIR)
     IN IF files.threw
        THEN Finish(w, call[w], IF files.error = "ENOENT" THEN Ok(0) ELSE files)
        ELSE SweepLoop(w, [call[w] EXCEPT
               !.started = now,
               !.files = {f \in files.value : endsWithJson(f)}])
  /\ UNCHANGED <<now, dirExists, fs, fd, ctx, active, calls, fresh, lastSave, probe, denied, reporter>>

\* clearExpiredSessions: getSessionMetadata of the next file and the test
\* metadata && new Date(metadata.expiresAt) <= now
SweepRead(w) ==
  /\ pc[w] = "sweep_read"
  /\ \E file \in call[w].files :
       LET metadata == getSessionMetadata(file)
           c == [call[w] EXCEPT !.files = @ \ {file}]
       IN IF /\ ~Falsy(metadata)
             /\ DateLe(NewDate(Get(metadata, "expiresAt")), DateOf(c.started))
          THEN /\ call' = [call EXCEPT ![w] = [c EXCEPT !.cur = file]]
               /\ pc' = [pc EXCEPT ![w] = "sweep_unlink"]
               /\ UNCHANGED last
          ELSE SweepLoop(w, c)
  /\ UNCHANGED <<now, dirExists, fs, fd, ctx, active, calls, fresh, lastSave, probe, denied, reporter>>

\* clearExpiredSessions: unlink(sessionPath) and cleared++; an ENOENT ends
\* the scan through the catch around it
SweepUnlink(w) ==
  /\ pc[w] = "sweep_unlink"
  /\ LET c == call[w]
         sessionPath == c.cur
     IN IF fs[sessionPath] = NoFile
        THEN /\ Finish(w, c, Ok(c.cleared))
             /\ UNCHANGED <<fs, fd, fresh>>
        ELSE /\ fs' = unlinked(fs, {sessionPath})
             /\ fd' = fdAfterUnlink(sessionPath)
             /\ fresh' = freshAfterUnlink({sessionPath})
             /\ SweepLoop(w, [c EXCEPT !.cur = NoPath, !.cleared = @ + 1])
  /\ UNCHANGED <<now, dirExists, ctx, active, calls, lastSave, probe, denied, reporter>>

(***************************************************************************)
(* Authentication orchestrator                                             *)
(***************************************************************************)
\* loginToApp: the cache check
LoginCheck(w) ==
  /\ pc[w] = "login_check"
  /\ LET hasValidSession == isValidOf(call[w].key, now)
     IN IF hasValidSession.threw
        THEN Finish(w, call[w], hasValidSession)
        ELSE /\ pc' = [pc EXCEPT ![w] =
                  IF hasValidSession.value THEN "login_load" ELSE "login_perform"]
             /\ call' = [call EXCEPT ![w].seen =
                  IF hasValidSession.value
                  THEN readSessionFile(sessionPathOf(call[w].key)) ELSE @]
             /\ UNCHANGED last
  /\ UNCHANGED <<now, dirExists, fs, fd, ctx, active, calls, fresh, lastSave, probe, denied, reporter>>

\* loginToApp, cached branch: context.storageState({ path: sessionPath }),
\* which writes the context's storage state to the file at that path
LoginLoad(w) ==
  /\ pc[w] = "login_load"
  /\ LET sessionPath == sessionPathOf(call[w].key)
     IN fs' = [fs EXCEPT ![sessionPath] = JSON_stringify(storageStateOf(ctx[w]))]
  /\ dirExists' = TRUE
  /\ pc' = [pc EXCEPT ![w] = "login_goto"]
  /\ UNCHANGED <<now, fd, call, ctx, last, active, calls, fresh, lastSave, probe, denied, reporter>>

\* loginToApp, cached branch: page.goto(appUrl) and the return
LoginGoto(w) ==
  /\ pc[w] = "login_goto"
  /\ ctx' = [ctx EXCEPT ![w].url = appUrlOf(call[w].key)]
  /\ Finish(w, call[w], Ok("cached"))
  /\ UNCHANGED <<now, dirExists, fs, fd, active, calls, fresh, lastSave, probe, denied, reporter>>

\* A login that saves the session before the confirmation wait.
LoginPerformSavingFirst(w) ==
  /\ pc[w] = "login_perform"
  /\ \E confirmed \in BOOLEAN :
       LET c == [call[w] EXCEPT !.logins = 1]
           appUrl == appUrlOf(c.key)
       IN /\ ctx' = [ctx EXCEPT ![w].url = appUrl]
          /\ fs' = [fs EXCEPT ![sessionPathOf(c.key)] =
               JSON_stringify(SessionFile(c.key.user, c.key.domain, c.key.environment,
                                          storageStateOf(ctx[w]), c.ttl, now))]
          /\ IF confirmed
             THEN Finish(w, c, Ok("fresh"))
             ELSE Finish(w, c, Throw("TimeoutError"))
  /\ UNCHANGED <<now, dirExists, fd, active, calls, fresh, lastSave, probe, denied, reporter>>

\* loginToApp: the login through the form, up to the confirmation wait.
\* It succeeds, or one of its waits times out.
LoginPerform(w) ==
  /\ pc[w] = "login_perform"
  /\ \E confirmed \in BOOLEAN :
       LET c == [call[w] EXCEPT !.logins = 1]
           appUrl == appUrlOf(c.key)
       IN IF ~confirmed
          THEN /\ ctx' = [ctx EXCEPT ![w].url = appUrl]
               /\ Finish(w, c, Throw("TimeoutError"))
          ELSE /\ ctx' = [ctx EXCEPT ![w] =
                    [cookies |-> ctx[w].cookies \cup AuthCookies(c.key.user, w),
                     origins |-> AuthOrigins(c.key.user, appUrl),
                     url |-> appUrl]]
               /\ IF c.skip
                  THEN Finish(w, c, Ok("fresh"))
                  ELSE /\ call' = [call EXCEPT ![w] = c]
                       /\ pc' = [pc EXCEPT ![w] = "save_begin"]
                       /\ UNCHANGED last
  /\ UNCHANGED <<now, dirExists, fs, fd, active, calls, fresh, lastSave, probe, denied, reporter>>

\* startAuthenticatedSession: the cache check; without a valid session it
\* opens a page and calls loginToApp with the same options
StartCheck(w) ==
  /\ pc[w] = "start_check"
  /\ LET hasValidSession == isValidOf(call[w].key, now)
     IN IF hasValidSession.threw
        THEN Finish(w, call[w], hasValidSession)
        ELSE /\ pc' = [pc EXCEPT ![w] =
                  IF hasValidSession.value THEN "start_read" ELSE "login_check"]
             /\ call' = [call EXCEPT ![w].seen =
                  IF hasValidSession.value
                  THEN readSessionFile(sessionPathOf(call[w].key)) ELSE @]
             /\ UNCHANGED last
  /\ UNCHANGED <<now, dirExists, fs, fd, ctx, active, calls, fresh, lastSave, probe, denied, reporter>>

\* What startAuthenticatedSession does with the file it reads: the cookies
\* of sessionData.storageState (none when it has no cookies property), or
\* the error of the read, the parse or the property access
cachedCookies(sessionPath) ==
  LET content == readFile(sessionPath)
  IN IF content.threw THEN content
     ELSE LET parsed == JSON_parse(content.value)
          IN IF parsed.threw THEN parsed
             ELSE IF Falsy(parsed.value) THEN Throw("TypeError")
             ELSE IF Falsy(Get(parsed.value, "storageState")) THEN Throw("TypeError")
             ELSE IF "cookies" \in DOMAIN parsed.value.storageState
                  THEN Ok(parsed.value.storageState.cookies)
                  ELSE Ok({})

\* startAuthenticatedSession, cached branch: readFile, JSON.parse, addCookies
StartRead(w) ==
  /\ pc[w] = "start_read"
  /\ LET cookies == cachedCookies(sessionPathOf(call[w].key))
     IN IF cookies.threw
        THEN /\ Finish(w, call[w], cookies)
             /\ UNCHANGED ctx
        ELSE /\ ctx' = [ctx EXCEPT ![w].cookies = @ \cup cookies.value]
             /\ pc' = [pc EXCEPT ![w] = "start_goto"]
             /\ UNCHANGED <<call, last>>
  /\ UNCHANGED <<now, dirExists, fs, fd, active, calls, fresh, lastSave, probe, denied, reporter>>

\* startAuthenticatedSession, cached branch: newPage, page.goto(appUrl), return
StartGoto(w) ==
  /\ pc[w] = "start_goto"
  /\ ctx' = [ctx EXCEPT ![w].url = appUrlOf(call[w].key)]
  /\ Finish(w, call[w], Ok("cached"))
  /\ UNCHANGED <<now, dirExists, fs, fd, active, calls, fresh, lastSave, probe, denied, reporter>>

\* The authenticatedContext fixture up to its call of
\* startAuthenticatedSession: the user is looked up; without one it throws,
\* with one it creates a context and passes the user, domain and environment.
FixtureLookup(w) ==
  /\ pc[w] = "fixture_lookup"
  /\ LET c == call[w]
         domain == getTargetDomain(appConfig)
         environment == getTargetEnvironment
     IN IF domain.threw
        THEN /\ Finish(w, c, domain)
             /\ UNCHANGED ctx
        ELSE LET users == getUsersByType(testUsers, c.userType, environment, domain.value)
             IN IF Len(users) = 0
                THEN /\ Finish(w, c, Throw("Error"))
                     /\ UNCHANGED ctx
                ELSE LET k == [user |-> users[1], domain |-> domain.value,
                               environment |-> environment]
                     IN /\ ctx' = [ctx EXCEPT ![w] = FreshContext]
                        /\ call' = [call EXCEPT ![w] =
                             [c EXCEPT !.key = k, !.after = fresh[k]]]
                        /\ pc' = [pc EXCEPT ![w] = "start_check"]
                        /\ UNCHANGED last
  /\ UNCHANGED <<now, dirExists, fs, fd, active, calls, fresh, lastSave, probe, denied, reporter>>

(***************************************************************************)
(* Environment                                                             *)
(***************************************************************************)
\* Time passes.
Tick ==
  /\ \E t \in TimePoints : t > now /\ now' = t
  /\ UNCHANGED <<dirExists, fs, fd, pc, call, ctx, last, active, calls, fresh,
                 lastSave, probe, denied, reporter>>

\* The process of worker w stops in the middle of a call; the operating
\* system closes its files.
Crash(w) ==
  /\ pc[w] # "idle"
  /\ pc' = [pc EXCEPT ![w] = "idle"]
  /\ last' = [last EXCEPT ![w] =
       [status |-> "crashed", op |-> call[w].op, key |-> call[w].key]]
  /\ call' = [call EXCEPT ![w] = NoCall]
  /\ fd' = [fd EXCEPT ![w] = NoPath]
  /\ UNCHANGED <<now, dirExists, fs, ctx, active, calls, fresh, lastSave, probe, denied, reporter>>

(***************************************************************************)
(* Specifications                                                          *)
(***************************************************************************)
\* A record left by a run of the day before, expired when the run begins.
StaleRecord(k) ==
  SessionFile(k.user, k.domain, k.environment, AuthState(k, "stale"), DEFAULT_TTL,
              0 - DEFAULT_TTL)

\* What a cache directory may hold at a key's path when a run begins.
InitialContents(k) ==
  {NoFile, EmptyText, GarbageText,
   JSON_stringify(EmptyState),
   JSON_stringify([metadata |-> [userId |-> k.user.id]]),
   JSON_stringify(StaleRecord(k))}

InitialDirs ==
  {f \in [Paths -> UNION {InitialContents(k) : k \in Keys}] :
     /\ \A k \in Keys :
          /\ f[sessionPathOf(k)] \in InitialContents(k)
          /\ f[tempPathOf(sessionPathOf(k))] = NoFile
     /\ \A k \in StoreKeys \ Keys :
          /\ f[sessionPathOf(k)] = NoFile
          /\ f[tempPathOf(sessionPathOf(k))] = NoFile}

NoProbe == [done |-> FALSE]

\* No reporter has been constructed.
NoReporter == [phase |-> "none"]

InitStore ==
  /\ now = 0
  /\ dirExists \in BOOLEAN
  /\ fs \in InitialDirs
  /\ dirExists = FALSE => \A p \in Paths : fs[p] = NoFile
  /\ fd = [w \in Workers |-> NoPath]
  /\ pc = [w \in Workers |-> "idle"]
  /\ call = [w \in Workers |-> NoCall]
  /\ ctx = [w \in Workers |-> FreshContext]
  /\ last = [w \in Workers |-> NoResult]
  /\ calls = 0
  /\ fresh = [k \in StoreKeys |-> NoFresh]
  /\ lastSave = "none"
  /\ probe = NoProbe
  /\ denied = {}
  /\ reporter = NoReporter

Init == InitStore /\ active = {"w1"}

InitRace == InitStore /\ active = Workers

Step(w) ==
  \/ Invoke(w)
  \/ IsSessionValidStep(w)
  \/ ClearSessionStep(w)
  \/ SaveBegin(w)
  \/ SaveOpen(w)
  \/ SaveWrite(w)
  \/ SaveRename(w)
  \/ LoginCheck(w)
  \/ LoginLoad(w)
  \/ LoginGoto(w)
  \/ LoginPerform(w)
  \/ StartCheck(w)
  \/ StartRead(w)
  \/ StartGoto(w)
  \/ FixtureLookup(w)
  \/ Crash(w)

Next == Tick \/ \E w \in Workers : Step(w)

\* One worker: the calls of a run follow one another, time passes, and the
\* process may stop at any await.
Spec == Init /\ [][Next]_vars

RaceStep(w) ==
  \/ InvokeAuth(w)
  \/ SaveBegin(w)
  \/ SaveOpen(w)
  \/ SaveWrite(w)
  \/ SaveRename(w)
  \/ LoginCheck(w)
  \/ LoginLoad(w)
  \/ LoginGoto(w)
  \/ LoginPerform(w)
  \/ StartCheck(w)
  \/ StartRead(w)
  \/ StartGoto(w)

NextRace == \E w \in Workers : RaceStep(w)

\* Two workers authenticate concurrently.
SpecRace == InitRace /\ [][NextRace]_vars

\* A record of an earlier run that is valid when the run begins.
RecentRecord(k) ==
  SessionFile(k.user, k.domain, k.environment, AuthState(k, "recent"), DEFAULT_TTL, 0 - 1)

\* What the store's own functions may find at a key's path.
StoredContents(k) ==
  {NoFile, GarbageText, JSON_stringify(StaleRecord(k)), JSON_stringify(RecentRecord(k))}

InitialStores ==
  {f \in [Paths -> UNION {StoredContents(k) : k \in StoreKeys}] :
     \A k \in StoreKeys :
       /\ f[sessionPathOf(k)] \in StoredContents(k)
       /\ f[tempPathOf(sessionPathOf(k))] = NoFile}

InitCache ==
  /\ now = 0
  /\ dirExists \in BOOLEAN
  /\ fs \in InitialStores
  /\ dirExists = FALSE => \A p \in Paths : fs[p] = NoFile
  /\ fd = [w \in Workers |-> NoPath]
  /\ pc = [w \in Workers |-> "idle"]
  /\ call = [w \in Workers |-> NoCall]
  /\ ctx = [w \in Workers |-> FreshContext]
  /\ last = [w \in Workers |-> NoResult]
  /\ active = {"w1"}
  /\ calls = 0
  /\ fresh = [k \in StoreKeys |-> NoFresh]
  /\ lastSave = "none"
  /\ probe = NoProbe
  /\ denied = {}
  /\ reporter = NoReporter

StoreStep(w) ==
  \/ InvokeStore(w)
  \/ IsSessionValidStep(w)
  \/ ClearSessionStep(w)
  \/ SaveBegin(w)
  \/ SaveOpen(w)
  \/ SaveWrite(w)
  \/ SaveRename(w)
  \/ GetSessionPathStep(w)
  \/ GetStorageStateStep(w)
  \/ GetSessionMetadataStep(w)
  \/ ClearCacheReaddir(w)
  \/ ClearCacheUnlink(w)
  \/ ListReaddir(w)
  \/ ListRead(w)
  \/ SweepReaddir(w)
  \/ SweepRead(w)
  \/ SweepUnlink(w)

NextStore == Tick \/ \E w \in Workers : StoreStep(w)

\* One worker calls the session store's functions over the keys of all
\* users while time passes.
SpecStore == InitCache /\ [][NextStore]_vars

\* What the process may be refused: the cache directory, the files of the
\* authenticating users.
Deniable == {DEFAULT_CACHE_DIR} \cup {sessionPathOf(k) : k \in Keys}

InitDenied ==
  /\ now = 0
  /\ dirExists = TRUE
  /\ fs \in InitialStores
  /\ fd = [w \in Workers |-> NoPath]
  /\ pc = [w \in Workers |-> "idle"]
  /\ call = [w \in Workers |-> NoCall]
  /\ ctx = [w \in Workers |-> FreshContext]
  /\ last = [w \in Workers |-> NoResult]
  /\ active = {"w1"}
  /\ calls = 0
  /\ fresh = [k \in StoreKeys |-> NoFresh]
  /\ lastSave = "none"
  /\ probe = NoProbe
  /\ denied \in SUBSET Deniable
  /\ reporter = NoReporter

ReadStep(w) ==
  \/ InvokeRead(w)
  \/ IsSessionValidStep(w)
  \/ GetSessionPathStep(w)
  \/ GetStorageStateStep(w)
  \/ GetSessionMetadataStep(w)
  \/ ListReaddir(w)
  \/ ListRead(w)

NextDenied == \E w \in Workers : ReadStep(w)

\* One worker reads a cache directory in which the directory itself or a
\* file may be closed to it.
SpecDenied == InitDenied /\ [][NextDenied]_vars

(***************************************************************************)
(* getSessionFilePath as a function of its arguments                       *)
(***************************************************************************)
\* User ids and domain names: any strings, "_" included.
Names == {"", "a", "b", "a_b", "b_a"}

Triples == Names \X Names \X Environment

InitPath ==
  /\ now = 0
  /\ dirExists = FALSE
  /\ fs = [p \in Paths |-> NoFile]
  /\ fd = [w \in Workers |-> NoPath]
  /\ pc = [w \in Workers |-> "idle"]
  /\ call = [w \in Workers |-> NoCall]
  /\ ctx = [w \in Workers |-> FreshContext]
  /\ last = [w \in Workers |-> NoResult]
  /\ active = {}
  /\ calls = 0
  /\ fresh = [k \in StoreKeys |-> NoFresh]
  /\ lastSave = "none"
  /\ \E a \in Triples, b \in Triples :
       probe = [done |-> FALSE, a |-> a, b |-> b]
  /\ denied = {}
  /\ reporter = NoReporter

\* Both triples are mapped to their paths, the first one twice.
ComputePaths ==
  /\ ~probe.done
  /\ probe' = [done |-> TRUE, a |-> probe.a, b |-> probe.b,
               pathA |-> getSessionFilePath(probe.a[1], probe.a[2], probe.a[3],
                                            DEFAULT_CACHE_DIR),
               again |-> getSessionFilePath(probe.a[1], probe.a[2], probe.a[3],
                                            DEFAULT_CACHE_DIR),
               pathB |-> getSessionFilePath(probe.b[1], probe.b[2], probe.b[3],
                                            DEFAULT_CACHE_DIR)]
  /\ UNCHANGED <<now, dirExists, fs, fd, pc, call, ctx, last, active, calls,
                 fresh, lastSave, denied, reporter>>

NextPath == ComputePaths

SpecPath == InitPath /\ [][NextPath]_vars

(***************************************************************************)
(* refreshAuth                                                             *)
(***************************************************************************)
\* refreshAuth that passes the caller's options on as they are.
RefreshClearCaching(w) ==
  /\ pc[w] = "refresh_clear"
  /\ LET sessionPath == sessionPathOf(call[w].key)
     IN /\ fs' = unlinked(fs, {sessionPath})
        /\ fd' = fdAfterUnlink(sessionPath)
        /\ call' = [call EXCEPT
                      ![w].cleared = IF fs[sessionPath] = NoFile THEN 0 ELSE 1]
  /\ pc' = [pc EXCEPT ![w] = EntryPoint([call[w] EXCEPT !.op = "loginToApp"])]
  /\ fresh' = [fresh EXCEPT ![call[w].key] = NoFresh]
  /\ UNCHANGED <<now, dirExists, ctx, last, active, calls, lastSave, probe,
                 denied, reporter>>

\* refreshAuth: clearSession, then loginToApp with
\* { ...options, skipSessionCache: true }
RefreshClear(w) ==
  /\ pc[w] = "refresh_clear"
  /\ LET sessionPath == sessionPathOf(call[w].key)
         c == [call[w] EXCEPT
                 !.cleared = IF fs[sessionPath] = NoFile THEN 0 ELSE 1,
                 !.skip = TRUE]
     IN /\ fs' = unlinked(fs, {sessionPath})
        /\ fd' = fdAfterUnlink(sessionPath)
        /\ call' = [call EXCEPT ![w] = c]
        /\ pc' = [pc EXCEPT ![w] = EntryPoint([c EXCEPT !.op = "loginToApp"])]
  /\ fresh' = [fresh EXCEPT ![call[w].key] = NoFresh]
  /\ UNCHANGED <<now, dirExists, ctx, last, active, calls, lastSave, probe,
                 denied, reporter>>

\* refreshAuth with the caller's options, and the authenticate calls.
RefreshCalls ==
  {NewCall(op, k, skip, DEFAULT_TTL, EmptyState) :
     <<op, k, skip>> \in ({"refreshAuth"} \cup AuthOps) \X Keys \X BOOLEAN}

InvokeRefresh(w) == InvokeAfter(w, RefreshCalls)

RefreshStep(w) ==
  \/ InvokeRefresh(w)
  \/ RefreshClear(w)
  \/ SaveBegin(w)
  \/ SaveOpen(w)
  \/ SaveWrite(w)
  \/ SaveRename(w)
  \/ LoginCheck(w)
  \/ LoginLoad(w)
  \/ LoginGoto(w)
  \/ LoginPerform(w)
  \/ StartCheck(w)
  \/ StartRead(w)
  \/ StartGoto(w)

NextRefresh == Tick \/ \E w \in Workers : RefreshStep(w)

\* One worker refreshes and authenticates while time passes.
SpecRefresh == InitCache /\ [][NextRefresh]_vars

(***************************************************************************)
(* Workers sharing the cache directory                                     *)
(***************************************************************************)
\* What the workers of a run do to one cache directory at the same time:
\* save, evict, sweep and start an authenticated session.
ContendCalls ==
  {c \in StoreCalls :
     \/ c.op \in {"clearSession", "clearExpiredSessions"}
     \/ /\ c.op = "saveSession"
        /\ c.ttl = DEFAULT_TTL
        /\ c.state = AuthState(c.key, "later")}
  \cup {NewCall("startAuthenticatedSession", k, FALSE, DEFAULT_TTL, EmptyState) :
          k \in Keys}

InvokeContend(w) == InvokeAfter(w, ContendCalls)

\* The directory holds records of earlier runs, expired or not.
InitContend ==
  /\ now = 0
  /\ dirExists = TRUE
  /\ fs \in {f \in InitialStores : \A p \in Paths : f[p] # GarbageText}
  /\ fd = [w \in Workers |-> NoPath]
  /\ pc = [w \in Workers |-> "idle"]
  /\ call = [w \in Workers |-> NoCall]
  /\ ctx = [w \in Workers |-> FreshContext]
  /\ last = [w \in Workers |-> NoResult]
  /\ active = Workers
  /\ calls = 0
  /\ fresh = [k \in StoreKeys |-> NoFresh]
  /\ lastSave = "none"
  /\ probe = NoProbe
  /\ denied = {}
  /\ reporter = NoReporter

ContendStep(w) ==
  \/ InvokeContend(w)
  \/ ClearSessionStep(w)
  \/ SaveBegin(w)
  \/ SaveOpen(w)
  \/ SaveWrite(w)
  \/ SaveRename(w)
  \/ SweepReaddir(w)
  \/ SweepRead(w)
  \/ SweepUnlink(w)
  \/ LoginCheck(w)
  \/ LoginLoad(w)
  \/ LoginGoto(w)
  \/ LoginPerform(w)
  \/ StartCheck(w)
  \/ StartRead(w)
  \/ StartGoto(w)

NextContend == Tick \/ \E w \in Workers : ContendStep(w)

\* Two workers use the cache directory concurrently while time passes.
SpecContend == InitContend /\ [][NextContend]_vars

(***************************************************************************)
(* mergeTestRunResults as a function of its argument                       *)
(***************************************************************************)
\* TestCaseResult["status"]
Status == {"passed", "failed", "skipped"}

TestCaseIds == {"TC-1", "TC-2"}

\* The priorities with passed as the worst status.
statusPriorityReversed(status) ==
  CASE status = "failed" -> 2
    [] status = "skipped" -> 1
    [] status = "passed" -> 0

\* const statusPriority = { failed: 0, skipped: 1, passed: 2 }
statusPriority(status) ==
  CASE status = "failed" -> 0
    [] status = "skipped" -> 1
    [] status = "passed" -> 2

TestCaseResult == [testCaseId : TestCaseIds, status : Status]

ResultLists == UNION {[1..n -> TestCaseResult] : n \in 0..MaxResults}

\* allResults.push(...run.results) for each run
RECURSIVE allResultsOf(_)
allResultsOf(runs) ==
  IF runs = <<>> THEN <<>> ELSE Head(runs).results \o allResultsOf(Tail(runs))

\* Map.prototype.has, and Map.prototype.set on a map kept as the sequence
\* of its values in insertion order
mapHas(resultMap, testCaseId) ==
  \E i \in DOMAIN resultMap : resultMap[i].testCaseId = testCaseId

mapGet(resultMap, testCaseId) ==
  resultMap[CHOOSE i \in DOMAIN resultMap : resultMap[i].testCaseId = testCaseId]

mapSet(resultMap, result) ==
  IF mapHas(resultMap, result.testCaseId)
  THEN [i \in DOMAIN resultMap |->
          IF resultMap[i].testCaseId = result.testCaseId THEN result ELSE resultMap[i]]
  ELSE Append(resultMap, result)

\* The deduplication loop of mergeTestRunResults
RECURSIVE dedupe(_, _)
dedupe(resultMap, allResults) ==
  IF allResults = <<>> THEN resultMap
  ELSE LET result == Head(allResults)
       IN IF ~mapHas(resultMap, result.testCaseId)
          THEN dedupe(mapSet(resultMap, result), Tail(allResults))
          ELSE LET existing == mapGet(resultMap, result.testCaseId)
               IN IF statusPriority(result.status) < statusPriority(existing.status)
                  THEN dedupe(mapSet(resultMap, result), Tail(allResults))
                  ELSE dedupe(resultMap, Tail(allResults))

mergeTestRunResults(runs) ==
  IF Len(runs) = 0
  THEN [runId |-> "generated", results |-> <<>>]
  ELSE LET first == runs[1]
       IN [runId |-> first.runId, results |-> dedupe(<<>>, allResultsOf(runs))]

\* The runs in the opposite order.
Reversed(runs) == [i \in DOMAIN runs |-> runs[Len(runs) + 1 - i]]

InitMerge ==
  /\ now = 0
  /\ dirExists = FALSE
  /\ fs = [p \in Paths |-> NoFile]
  /\ fd = [w \in Workers |-> NoPath]
  /\ pc = [w \in Workers |-> "idle"]
  /\ call = [w \in Workers |-> NoCall]
  /\ ctx = [w \in Workers |-> FreshContext]
  /\ last = [w \in Workers |-> NoResult]
  /\ active = {}
  /\ calls = 0
  /\ fresh = [k \in StoreKeys |-> NoFresh]
  /\ lastSave = "none"
  /\ probe = [done |-> FALSE, runs |-> <<>>]
  /\ denied = {}
  /\ reporter = NoReporter

\* A shard's run ends with its results; the runs are kept in the order
\* they will be passed to mergeTestRunResults.
AddRun(results) ==
  /\ ~probe.done
  /\ Len(probe.runs) < MaxRuns
  /\ probe' = [probe EXCEPT !.runs =
                 Append(@, [runId |-> "run" \o ToString(Len(@) + 1),
                            results |-> results])]
  /\ UNCHANGED <<now, dirExists, fs, fd, pc, call, ctx, last, active, calls,
                 fresh, lastSave, denied, reporter>>

\* The runs are merged as given and in the opposite order.
ComputeMerge ==
  /\ ~probe.done
  /\ probe' = [done |-> TRUE, runs |-> probe.runs,
               merged |-> mergeTestRunResults(probe.runs),
               swapped |-> mergeTestRunResults(Reversed(probe.runs))]
  /\ UNCHANGED <<now, dirExists, fs, fd, pc, call, ctx, last, active, calls,
                 fresh, lastSave, denied, reporter>>

NextMerge ==
  \/ \E results \in ResultLists : AddRun(results)
  \/ ComputeMerge

SpecMerge == InitMerge /\ [][NextMerge]_vars

(***************************************************************************)
(* TestCaseReporter                                                        *)
(***************************************************************************)
TEST_CASE_ANNOTATION_TYPE == "testCaseId"

\* The tests of a suite: testCase("TC-1", ...), testCase(["TC-1", "TC-2"],
\* ...), a plain test(...) and a test(...) declared with a testCaseId
\* annotation in its details.
Tests == {"single", "multi", "plain", "tagged"}

\* const ids = Array.isArray(testCaseId) ? testCaseId : [testCaseId]
idsOf(t) ==
  CASE t = "single" -> <<"TC-1">>
    [] t = "multi" -> <<"TC-1", "TC-2">>
    [] OTHER -> <<>>

\* test.annotations before the test has run: what its declaration holds.
declaredAnnotations(t) ==
  IF t = "tagged"
  THEN <<[type |-> TEST_CASE_ANNOTATION_TYPE, description |-> "TC-2"]>>
  ELSE <<>>

\* test.annotations when the test has ended: the body given to base() by
\* testCase pushes one annotation for each id, if it ran.
annotationsAtEnd(t, ran) ==
  declaredAnnotations(t)
    \o (IF ran
        THEN [i \in DOMAIN idsOf(t) |->
                [type |-> TEST_CASE_ANNOTATION_TYPE, description |-> idsOf(t)[i]]]
        ELSE <<>>)

checkForMissingIds(tests, annotationType) ==
  {test \in tests :
     LET hasTestCaseId ==
           \E i \in DOMAIN declaredAnnotations(test) :
             /\ declaredAnnotations(test)[i].type = annotationType
             /\ declaredAnnotations(test)[i].description # ""
     IN ~hasTestCaseId}

\* TestResult["status"]
PlaywrightStatus == {"passed", "failed", "timedOut", "skipped", "interrupted"}

\* Map Playwright status to our status
mappedStatus(status) ==
  IF status = "passed" THEN "passed"
  ELSE IF status = "skipped" THEN "skipped"
  ELSE "failed"

\* The first result for an id is kept whatever follows.
keepsFirst(status, existing) == TRUE

\* statusPriority[status] >= statusPriority[existing.status]: continue
keepsExisting(status, existing) ==
  statusPriority(status) >= statusPriority(existing)

\* The loop of onTestEnd over the ids of the test.
RECURSIVE storeResults(_, _, _)
storeResults(results, testCaseIds, status) ==
  IF testCaseIds = <<>> THEN results
  ELSE LET id == Head(testCaseIds)
           existing == results[id]
       IN IF existing # "none" /\ keepsExisting(status, existing)
          THEN storeResults(results, Tail(testCaseIds), status)
          ELSE storeResults([results EXCEPT ![id] = status], Tail(testCaseIds), status)

InitReport ==
  /\ now = 0
  /\ dirExists = FALSE
  /\ fs = [p \in Paths |-> NoFile]
  /\ fd = [w \in Workers |-> NoPath]
  /\ pc = [w \in Workers |-> "idle"]
  /\ call = [w \in Workers |-> NoCall]
  /\ ctx = [w \in Workers |-> FreshContext]
  /\ last = [w \in Workers |-> NoResult]
  /\ active = {}
  /\ calls = 0
  /\ fresh = [k \in StoreKeys |-> NoFresh]
  /\ lastSave = "none"
  /\ probe = [done |-> FALSE]
  /\ denied = {}
  /\ reporter = NoReporter

\* new TestCaseReporter(options)
Construct(strictMode, allowDuplicates) ==
  /\ reporter.phase = "none"
  /\ reporter' = [phase |-> "constructed",
                  options |-> [strictMode |-> strictMode,
                               allowDuplicates |-> allowDuplicates],
                  suite |-> {},
                  results |-> [id \in TestCaseIds |-> "none"],
                  allTestCaseIds |-> <<>>,
                  testsWithoutIds |-> {},
                  reported |-> [id \in TestCaseIds |-> {}],
                  failing |-> FALSE,
                  ends |-> 0,
                  status |-> "none"]
  /\ UNCHANGED <<now, dirExists, fs, fd, pc, call, ctx, last, active, calls,
                 fresh, lastSave, probe, denied>>

onBegin(suite) ==
  /\ reporter.phase = "constructed"
  /\ reporter' = [reporter EXCEPT
                    !.phase = "begun",
                    !.suite = suite,
                    !.testsWithoutIds =
                      checkForMissingIds(suite, TEST_CASE_ANNOTATION_TYPE)]
  /\ UNCHANGED <<now, dirExists, fs, fd, pc, call, ctx, last, active, calls,
                 fresh, lastSave, probe, denied>>

\* One attempt of a test has ended with a status; ran says whether its
\* body was entered (it is not when a hook or a fixture fails first).
onTestEnd(test, status, ran) ==
  /\ reporter.phase = "begun"
  /\ reporter.ends < MaxTestEnds
  /\ test \in reporter.suite
  /\ LET annotations == annotationsAtEnd(test, ran)
         testCaseIds ==
           LET kept == SelectSeq(annotations,
                                 LAMBDA a : a.type = TEST_CASE_ANNOTATION_TYPE)
           IN [i \in DOMAIN kept |-> kept[i].description]
         ids == {testCaseIds[i] : i \in DOMAIN testCaseIds}
         seen == [reporter EXCEPT
                    !.ends = @ + 1,
                    !.failing = @ \/ status \notin {"passed", "skipped"}]
     IN reporter' =
          IF Len(testCaseIds) = 0 THEN seen
          ELSE [seen EXCEPT
                  !.allTestCaseIds = @ \o testCaseIds,
                  !.results = storeResults(@, testCaseIds, mappedStatus(status)),
                  !.reported = [id \in TestCaseIds |->
                                  IF id \in ids THEN @[id] \cup {status} ELSE @[id]]]
  /\ UNCHANGED <<now, dirExists, fs, fd, pc, call, ctx, last, active, calls,
                 fresh, lastSave, probe, denied>>

\* The run finishes with Playwright's status for it, which a reporter
\* changes only by what onEnd resolves to: here nothing.
onEnd(result) ==
  /\ reporter.phase = "begun"
  /\ result = "passed" => ~reporter.failing
  /\ LET returned == Undefined
     IN reporter' = [reporter EXCEPT
                       !.phase = "ended",
                       !.status = IF returned = Undefined THEN result
                                  ELSE returned.status]
  /\ UNCHANGED <<now, dirExists, fs, fd, pc, call, ctx, last, active, calls,
                 fresh, lastSave, probe, denied>>

NextReport ==
  \/ \E strictMode, allowDuplicates \in BOOLEAN :
       Construct(strictMode, allowDuplicates)
  \/ \E suite \in SUBSET Tests \ {{}} : onBegin(suite)
  \/ \E test \in Tests, status \in PlaywrightStatus, ran \in BOOLEAN :
       onTestEnd(test, status, ran)
  \/ \E result \in {"passed", "failed"} : onEnd(result)

SpecReport == InitReport /\ [][NextReport]_vars

(***************************************************************************)
(* Properties                                                              *)
(***************************************************************************)
\* The call of worker w returns or rejects in this step.
Returns(w) == pc[w] # "idle" /\ pc'[w] = "idle" /\ last'[w].status # "crashed"

\* A complete JSON text of an object whose metadata.expiresAt is an ISO
\* time later than t.
LiveRecordAt(content, t) ==
  /\ content.kind = "json"
  /\ "metadata" \in DOMAIN content.value
  /\ "expiresAt" \in DOMAIN content.value.metadata
  /\ "iso" \in DOMAIN content.value.metadata.expiresAt
  /\ content.value.metadata.expiresAt.iso > t

\* C1: isSessionValid returns true exactly when the file at the derived
\* path is a readable record whose expiresAt is later than the clock, and
\* once saveSession with ttl T has put a record created at c in place, the
\* key is valid at every instant up to c + T - 1 and at none from c + T on.
C1_ValidUntilExpiry ==
  [][\A w \in Workers :
       /\ (pc[w] = "valid_check" /\ Returns(w))
            => ((last'[w].ret = Ok(TRUE))
                  <=> LiveRecordAt(fs[sessionPathOf(call[w].key)], now))
       /\ (pc[w] = "save_rename" /\ Returns(w) /\ last'[w].status = "ok")
            => LET c == call[w].rec.metadata.createdAt.iso
                   T == call[w].ttl
               IN \A k \in Keys, t \in TimePoints \cup {c + T - 1, c + T} :
                    k = call[w].key => (isValidOf(k, t))' = Ok(t <= c + T - 1)
    ]_vars

\* C1 witness: a record saved with ttl = 0 at this very instant, and the
\* isSessionValid call that followed returned false.
C1_Witness ==
  \E w \in Workers :
    /\ last[w].status = "ok"
    /\ last[w].op = "isSessionValid"
    /\ last[w].ret = Ok(FALSE)
    /\ LET content == fs[sessionPathOf(last[w].key)]
       IN /\ LiveRecordAt(content, now - 1)
          /\ content.value.metadata.createdAt.iso = now
          /\ content.value.metadata.expiresAt.iso = now

\* C2: isSessionValid never raises, whatever the file at the path holds.
C2_NeverRaises ==
  \A w \in Workers :
    last[w].status = "threw" => last[w].op # "isSessionValid"

SavePcs == {"save_begin", "save_open", "save_write", "save_rename"}

\* C3: whatever step a worker inside saveSession takes, stopping included,
\* the canonical path keeps what it held or holds the complete new record,
\* and never a partially written one.
C3_SaveAtomic ==
  [][\A w \in Workers :
       pc[w] \in SavePcs =>
         LET sessionPath == sessionPathOf(call[w].key)
         IN /\ \/ fs'[sessionPath] = fs[sessionPath]
               \/ fs'[sessionPath] = JSON_stringify(call[w].rec)
            /\ fs'[sessionPath].kind # "torn"
    ]_vars

\* C3 witness: the process stopped inside saveSession after the temporary
\* file was opened and before its last write.
C3_Witness ==
  \E w \in Workers :
    /\ last[w].status = "crashed"
    /\ last[w].op = "saveSession"
    /\ fs[tempPathOf(sessionPathOf(last[w].key))].kind = "torn"

\* The most recent call of w was a cache-permitted authenticate call that
\* returned or rejected.
AuthEnded(w) ==
  /\ last[w].status \in {"ok", "threw"}
  /\ last[w].op \in AuthOps
  /\ ~last[w].skip

\* C4: an authenticate call made after a cached fresh login for the key,
\* before that record expires and with no eviction in between, performs no
\* login and ends with the page at the target URL.
C4_SecondCallReusesSession ==
  \A w \in Workers :
    (AuthEnded(w) /\ last[w].after.set /\ now < last[w].after.expiresAt)
      => /\ last[w].status = "ok"
         /\ last[w].ret = Ok("cached")
         /\ last[w].logins = 0
         /\ ctx[w].url = appUrlOf(last[w].key)

\* C5: when a cache-permitted authenticate call returns from a fresh login,
\* the key's path holds the record of that login, valid from its creation
\* until 24 hours later.
C5_FreshLoginSaves ==
  \A w \in Workers :
    (AuthEnded(w) /\ last[w].status = "ok" /\ last[w].ret = Ok("fresh"))
      => LET k == last[w].key
             content == fs[sessionPathOf(k)]
         IN /\ last[w].logins = 1
            /\ content.kind = "json"
            /\ "metadata" \in DOMAIN content.value
            /\ content.value.metadata.userId = k.user.id
            /\ content.value.metadata.domain = k.domain
            /\ content.value.metadata.environment = k.environment
            /\ content.value.storageState = storageStateOf(ctx[w])
            /\ content.value.metadata.createdAt.iso <= now
            /\ \A t \in TimePoints :
                 (/\ content.value.metadata.createdAt.iso <= t
                  /\ t < content.value.metadata.createdAt.iso + DEFAULT_TTL)
                   => isValidOf(k, t) = Ok(TRUE)

\* C5 witness: a fresh login has returned and the key is valid now.
C5_Witness ==
  \E w \in Workers :
    /\ AuthEnded(w)
    /\ last[w].status = "ok"
    /\ last[w].ret = Ok("fresh")
    /\ isValidOf(last[w].key, now) = Ok(TRUE)

CheckPcs == {"login_check", "start_check"}

\* C6: a cache check that finds no usable record (none, an expired one, or
\* content that is no record) goes on towards the login and does not fail.
C6_MissFallsBackToLogin ==
  [][\A w \in Workers :
       (/\ pc[w] \in CheckPcs
        /\ pc'[w] # pc[w]
        /\ last'[w].status # "crashed"
        /\ ~LiveRecordAt(fs[sessionPathOf(call[w].key)], now))
         => pc'[w] \in {"login_check", "login_perform"}
    ]_vars

CachedPcs == {"login_load", "login_goto", "start_read", "start_goto"}

\* C7: no step of the LOAD_CACHED path changes a file of the cache.
C7_CachedLoadLeavesRecord ==
  [][\A w \in Workers : pc[w] \in CachedPcs => fs' = fs]_vars

\* C8: when two workers have both gone through the login for one key, both
\* calls have returned without error and the key's path holds the complete
\* record of the save that returned last.
C8_BothSavesComplete ==
  (\A w \in Workers :
     /\ AuthEnded(w)
     /\ last[w].logins = 1
     /\ last[w].ret # Throw("TimeoutError"))
    => /\ \A w \in Workers : last[w].status = "ok"
       /\ \A w \in Workers :
            LET content == fs[sessionPathOf(last[w].key)]
            IN /\ content.kind = "json"
               /\ lastSave = w =>
                    content.value.storageState.cookies
                      = AuthCookies(last[w].key.user, w)

\* C9: when the LOAD_CACHED path is about to navigate, the cookies and the
\* local-storage entries of the record the check found valid are in the
\* browser context.
C9_StateAppliedBeforeNavigation ==
  \A w \in Workers :
    pc[w] \in {"login_goto", "start_goto"}
      => /\ call[w].seen.storageState.cookies \subseteq ctx[w].cookies
         /\ call[w].seen.storageState.origins \subseteq ctx[w].origins

\* C10: getSessionFilePath gives the same path for the same triple and
\* different paths for different triples.
C10_PathInjective ==
  probe.done =>
    /\ probe.pathA = probe.again
    /\ (probe.pathA = probe.pathB) <=> (probe.a = probe.b)

\* A complete JSON text of an object whose metadata.expiresAt is an ISO
\* time not later than t.
ExpiredRecordAt(content, t) ==
  /\ content.kind = "json"
  /\ "metadata" \in DOMAIN content.value
  /\ "expiresAt" \in DOMAIN content.value.metadata
  /\ "iso" \in DOMAIN content.value.metadata.expiresAt
  /\ content.value.metadata.expiresAt.iso <= t

SweepPcs == {"sweep_readdir", "sweep_read", "sweep_unlink"}

\* C11: when clearExpiredSessions returns, every file that held a record
\* with expiresAt <= the time of the call is gone, every other file (live
\* records, unparseable files, temporary files) is as it was, whatever the
\* order of the scan, and the result is the number of files removed.
C11_SweepRemovesExactlyExpired ==
  [][\A w \in Workers :
       (pc[w] \in SweepPcs /\ Returns(w))
         => LET c == call[w]
                t == IF pc[w] = "sweep_readdir" THEN now ELSE c.started
                expired == {p \in Paths : endsWithJson(p) /\ ExpiredRecordAt(c.before[p], t)}
            IN /\ last'[w].status = "ok"
               /\ \A p \in Paths :
                    fs'[p] = IF p \in expired THEN NoFile ELSE c.before[p]
               /\ last'[w].ret = Ok(Cardinality(expired))
    ]_vars

\* C11 witness: a sweep removed exactly one record and left a live record
\* and an unparseable file behind.
C11_Witness ==
  \E w \in Workers :
    /\ last[w].status = "ok"
    /\ last[w].op = "clearExpiredSessions"
    /\ last[w].ret = Ok(1)
    /\ \E k \in StoreKeys : fs[sessionPathOf(k)] = GarbageText
    /\ \E k \in StoreKeys : LiveRecordAt(fs[sessionPathOf(k)], now)
    /\ \E k \in StoreKeys : fs[sessionPathOf(k)] = NoFile

\* C12: clearSession leaves the key's path without a file and every other
\* path as it was, so that getSessionPath of every other key returns what it
\* returned before (the path, for a live record), and it returns without
\* error whether or not the file was there.
C12_ClearSessionScoped ==
  [][\A w \in Workers :
       (pc[w] = "clear_unlink" /\ Returns(w))
         => LET sessionPath == sessionPathOf(call[w].key)
            IN /\ last'[w].status = "ok"
               /\ fs'[sessionPath] = NoFile
               /\ \A p \in Paths \ {sessionPath} : fs'[p] = fs[p]
               /\ fs[sessionPath] = NoFile => (fs' = fs /\ dirExists' = dirExists)
               /\ \A k \in StoreKeys :
                    (k # call[w].key /\ LiveRecordAt(fs[sessionPathOf(k)], now))
                      => (getSessionPath(k.user.id, k.domain, k.environment, now))'
                           = Ok(Str(sessionPathOf(k)))
    ]_vars

\* C12 witness: clearSession removed the file of one key while the two
\* other keys have live records.
C12_Witness ==
  \E w \in Workers :
    /\ last[w].status = "ok"
    /\ last[w].op = "clearSession"
    /\ last[w].cleared = 1
    /\ fs[sessionPathOf(last[w].key)] = NoFile
    /\ \A k \in StoreKeys \ {last[w].key} :
         getSessionPath(k.user.id, k.domain, k.environment, now)
           = Ok(Str(sessionPathOf(k)))

\* The call of w follows a saveSession of the same caller for the same key
\* that returned, with no other call in between.
FollowsSave(w) ==
  /\ call[w].prev.status = "ok"
  /\ call[w].prev.op = "saveSession"
  /\ call[w].prev.key = call[w].key

\* C13: when a saveSession that follows a saveSession for the same key
\* returns, the key's path holds the record of the second call and no
\* temporary file is left; getStorageState and getSessionMetadata give the
\* second call's browser state and timestamps, and getSessionPath gives the
\* path while the second record has not expired.
C13_SecondSaveReplacesFirst ==
  [][\A w \in Workers :
       (/\ pc[w] = "save_rename" /\ Returns(w) /\ last'[w].status = "ok"
        /\ call[w].op = "saveSession" /\ FollowsSave(w))
         => LET c == call[w]
                created == c.rec.metadata.createdAt.iso
            IN \A k \in StoreKeys :
                 k = c.key =>
                   /\ c.rec.storageState = c.state
                   /\ fs'[sessionPathOf(k)] = JSON_stringify(c.rec)
                   /\ fs'[tempPathOf(sessionPathOf(k))] = NoFile
                   /\ (getStorageState(sessionPathOf(k)))' = c.state
                   /\ (getSessionMetadata(sessionPathOf(k)))' = c.rec.metadata
                   /\ (getSessionPath(k.user.id, k.domain, k.environment, now))'
                        = IF now < created + c.ttl
                          THEN Ok(Str(sessionPathOf(k))) ELSE Ok(JsNull)
    ]_vars

\* C13 witness: the second of two saves with different browser states has
\* returned, later than the first could have been made, and the file holds
\* the second state.
C13_Witness ==
  \E w \in Workers :
    /\ last[w].status = "ok"
    /\ last[w].op = "saveSession"
    /\ last[w].prev.status = "ok"
    /\ last[w].prev.op = "saveSession"
    /\ last[w].prev.key = last[w].key
    /\ last[w].prev.state # last[w].state
    /\ getStorageState(sessionPathOf(last[w].key)) = last[w].state
    /\ getSessionMetadata(sessionPathOf(last[w].key)).createdAt.iso > 0

\* C14: a getStorageState that follows a saveSession for the same key
\* returns the browser state that was passed to that saveSession.
C14_SaveLoadRoundTrip ==
  [][\A w \in Workers :
       (pc[w] = "state_read" /\ Returns(w) /\ FollowsSave(w))
         => last'[w].ret = Ok(call[w].prev.state)
    ]_vars

\* C14 witness: getStorageState returned the cookies and local storage
\* that the saveSession before it was given.
C14_Witness ==
  \E w \in Workers :
    /\ last[w].status = "ok"
    /\ last[w].op = "getStorageState"
    /\ last[w].prev.status = "ok"
    /\ last[w].prev.op = "saveSession"
    /\ last[w].prev.key = last[w].key
    /\ last[w].prev.state.cookies # {}
    /\ last[w].ret = Ok(last[w].prev.state)

ReadPcs ==
  {"valid_check", "path_check", "state_read", "metadata_read", "list_readdir",
   "list_read"}

\* C15: no step of isSessionValid, getSessionPath, getStorageState,
\* getSessionMetadata or listSessions changes a file or the directory.
C15_ReadsLeaveFiles ==
  [][\A w \in Workers :
       pc[w] \in ReadPcs => (fs' = fs /\ dirExists' = dirExists)
    ]_vars

\* C15 witness: getSessionPath returned null for a key whose expired record
\* is still there, next to an unparseable file.
C15_Witness ==
  \E w \in Workers :
    /\ last[w].status = "ok"
    /\ last[w].op = "getSessionPath"
    /\ last[w].ret = Ok(JsNull)
    /\ ExpiredRecordAt(fs[sessionPathOf(last[w].key)], now)
    /\ \E k \in StoreKeys : fs[sessionPathOf(k)] = GarbageText

\* C16: whenever a step of a call puts a file at a canonical path, the file
\* is a record whose expiresAt is its createdAt plus the ttl of that call.
C16_ExpiresAtIsCreatedAtPlusTtl ==
  [][\A w \in Workers, k \in StoreKeys :
       LET old == fs[sessionPathOf(k)]
           new == fs'[sessionPathOf(k)]
       IN (pc[w] # "idle" /\ new # old /\ new # NoFile)
            => /\ new.kind = "json"
               /\ "metadata" \in DOMAIN new.value
               /\ new.value.metadata.expiresAt.iso
                    = new.value.metadata.createdAt.iso + call[w].ttl
    ]_vars

\* C17: a call with skipSessionCache never stands at a cache check, a
\* cached load or a save, none of its steps changes a file or the cache
\* directory, and when it returns it has performed one login.
C17_SkipCacheBypassesStore ==
  [][\A w \in Workers :
       (pc[w] # "idle" /\ call[w].skip)
         => /\ pc[w] \notin CheckPcs \cup CachedPcs \cup SavePcs
            /\ fs' = fs
            /\ dirExists' = dirExists
            /\ Returns(w) => last'[w].logins = 1
            /\ (Returns(w) /\ last'[w].status = "ok") => last'[w].ret = Ok("fresh")
    ]_vars

\* C17 witness: a call with skipSessionCache logged in and returned while
\* the cache held a valid session for its key.
C17_Witness ==
  \E w \in Workers :
    /\ last[w].status = "ok"
    /\ last[w].op \in AuthOps
    /\ last[w].skip
    /\ last[w].logins = 1
    /\ isValidOf(last[w].key, now) = Ok(TRUE)

\* C18: a login step that fails ends the call with that very failure, after
\* one login attempt, and neither it nor the cache checks before it have
\* written a file.
C18_LoginFailurePropagates ==
  [][\A w \in Workers :
       /\ (pc[w] = "login_perform" /\ Returns(w) /\ ctx'[w].cookies = ctx[w].cookies)
            => /\ last'[w].status = "threw"
               /\ last'[w].ret = Throw("TimeoutError")
               /\ last'[w].logins = 1
               /\ fs' = fs
       /\ pc[w] \in CheckPcs \cup {"fixture_lookup"} => fs' = fs
    ]_vars

\* C18 witness: a cache-permitted authenticate call ended with the timeout
\* of its login and there is no file for its key.
C18_Witness ==
  \E w \in Workers :
    /\ last[w].status = "threw"
    /\ last[w].op \in AuthOps
    /\ ~last[w].skip
    /\ last[w].ret = Throw("TimeoutError")
    /\ last[w].logins = 1
    /\ fs[sessionPathOf(last[w].key)] = NoFile

\* C19: when the fixture finds no user of the requested type on the target
\* domain and environment, its step throws an Error, no context exists, no
\* login has been made and no file has changed.
C19_MissingUserFailsAtOnce ==
  [][\A w \in Workers :
       (/\ pc[w] = "fixture_lookup"
        /\ pc'[w] # pc[w]
        /\ last'[w].status # "crashed"
        /\ \A i \in DOMAIN testUsers :
             ~(/\ testUsers[i].type = call[w].userType
               /\ testUsers[i].domain = getTargetDomain(appConfig).value
               /\ testUsers[i].environment = getTargetEnvironment))
         => /\ Returns(w)
            /\ last'[w].status = "threw"
            /\ last'[w].ret = Throw("Error")
            /\ last'[w].logins = 0
            /\ ctx'[w] = NoContext
            /\ fs' = fs
            /\ dirExists' = dirExists
    ]_vars

\* C19 witness: the fixture threw for a user type without a user.
C19_Witness ==
  \E w \in Workers :
    /\ last[w].status = "threw"
    /\ last[w].op = "authenticatedContext"
    /\ last[w].ret = Throw("Error")
    /\ ctx[w] = NoContext

ClearAllPcs == {"clearall_readdir", "clearall_unlink"}

\* C20: clearSessionCache returns without error, with or without a cache
\* directory; afterwards no key has a file, isSessionValid is false for
\* every key at every instant, and a listSessions that follows returns [].
C20_ClearCacheRemovesAll ==
  [][\A w \in Workers :
       /\ (pc[w] \in ClearAllPcs /\ Returns(w))
            => /\ last'[w].status = "ok"
               /\ dirExists' = dirExists
               /\ \A k \in StoreKeys :
                    /\ fs'[sessionPathOf(k)] = NoFile
                    /\ \A t \in TimePoints : (isValidOf(k, t))' = Ok(FALSE)
       /\ (/\ pc[w] \in {"list_readdir", "list_read"} /\ Returns(w)
           /\ call[w].prev.status = "ok"
           /\ call[w].prev.op = "clearSessionCache")
            => last'[w].ret = Ok(<<>>)
    ]_vars

\* C20 witness: listSessions returned [] after a clearSessionCache that
\* removed the files of all three keys.
C20_Witness ==
  \E w \in Workers :
    /\ last[w].status = "ok"
    /\ last[w].op = "listSessions"
    /\ last[w].ret = Ok(<<>>)
    /\ last[w].prev.status = "ok"
    /\ last[w].prev.op = "clearSessionCache"
    /\ last[w].prev.cleared = Cardinality(StoreKeys)

\* C21: a read operation ends without raising, whatever the process is
\* refused: permission denied on a file or on the cache directory counts
\* as a cache miss.
C21_DeniedReadsAreMisses ==
  \A w \in Workers :
    (last[w].status \in {"ok", "threw"} /\ last[w].op \in ReadOps)
      => last[w].status = "ok"

\* The statuses the runs hold for a test case id.
StatusesOf(runs, id) ==
  {r.status : r \in {rr \in UNION {{run.results[i] : i \in DOMAIN run.results} :
                                    run \in {runs[j] : j \in DOMAIN runs}} :
                       rr.testCaseId = id}}

\* The most severe of a non-empty set of statuses: failed, else skipped,
\* else passed.
MostSevere(statuses) ==
  IF "failed" \in statuses THEN "failed"
  ELSE IF "skipped" \in statuses THEN "skipped"
  ELSE "passed"

\* The results hold every id of the runs once, with the most severe status.
MergedRight(runs, results) ==
  /\ \A i, j \in DOMAIN results :
       results[i].testCaseId = results[j].testCaseId => i = j
  /\ {results[i].testCaseId : i \in DOMAIN results}
       = {id \in TestCaseIds : StatusesOf(runs, id) # {}}
  /\ \A i \in DOMAIN results :
       results[i].status = MostSevere(StatusesOf(runs, results[i].testCaseId))

\* C22: the merged results hold each testCaseId of the runs exactly once,
\* with the most severe status the runs have for it, in whichever order the
\* runs are given.
C22_MergeKeepsWorstStatus ==
  (probe.done /\ "merged" \in DOMAIN probe)
    => /\ MergedRight(probe.runs, probe.merged.results)
       /\ MergedRight(probe.runs, probe.swapped.results)

\* C22 witness: one id is skipped in the first run and failed in the
\* second, and the merged result has it once, as failed.
C22_Witness ==
  /\ probe.done
  /\ "merged" \in DOMAIN probe
  /\ Len(probe.runs) = 2
  /\ probe.runs[1].results = <<[testCaseId |-> "TC-1", status |-> "skipped"]>>
  /\ probe.runs[2].results = <<[testCaseId |-> "TC-1", status |-> "failed"]>>
  /\ probe.merged.results = <<[testCaseId |-> "TC-1", status |-> "failed"]>>

\* A test lacks a testCaseId when neither its declaration nor its body
\* gives it one.
LacksId(t) == declaredAnnotations(t) = <<>> /\ idsOf(t) = <<>>

\* C23: in strictMode, a run with a test that lacks a testCaseId has ended
\* as failed.
C23_StrictModeFailsRun ==
  (/\ reporter.phase = "ended"
   /\ reporter.options.strictMode
   /\ \E t \in reporter.suite : LacksId(t))
    => reporter.status = "failed"

\* The severity of a status as Playwright reports it.
SeverityOf(status) ==
  CASE status = "passed" -> "passed"
    [] status = "skipped" -> "skipped"
    [] OTHER -> "failed"

\* C24: the status stored for an id is the most severe of the statuses
\* reported for it by onTestEnd, every status but passed and skipped
\* counting as failed, and no event makes a stored status less severe.
C24_StoredStatusIsWorst ==
  /\ [](reporter.phase \in {"begun", "ended"}
         => \A id \in TestCaseIds :
              IF reporter.reported[id] = {}
              THEN reporter.results[id] = "none"
              ELSE reporter.results[id]
                     = MostSevere({SeverityOf(st) : st \in reporter.reported[id]}))
  /\ [][reporter.phase = "begun"
          => \A id \in TestCaseIds :
               reporter.results[id] # "none"
                 => /\ reporter'.results[id] # "none"
                    /\ \/ reporter'.results[id] = reporter.results[id]
                       \/ /\ reporter.results[id] = "passed"
                          /\ reporter'.results[id] \in {"skipped", "failed"}
                       \/ /\ reporter.results[id] = "skipped"
                          /\ reporter'.results[id] = "failed"]_vars

\* C24 witness: TC-1 was reported as passed, as timed out and as skipped,
\* and is stored as failed.
C24_Witness ==
  /\ reporter.phase = "begun"
  /\ reporter.reported["TC-1"] = {"passed", "timedOut", "skipped"}
  /\ reporter.results["TC-1"] = "failed"

\* Tests declared through testCase with at least one id.
DeclaredThroughTestCase(t) == idsOf(t) # <<>>

\* C30: no test declared through testCase with a non-empty id is among the
\* tests onBegin found without an id.
C30_TestCaseTestsHaveIds ==
  reporter.phase \in {"begun", "ended"}
    => \A t \in reporter.suite :
         DeclaredThroughTestCase(t) => t \notin reporter.testsWithoutIds

\* C29: when refreshAuth returns, the key's path holds no record and one
\* login was performed; an authenticate call without skipSessionCache that
\* the same worker makes next for the key performs a login.
C29_RefreshLeavesNoRecord ==
  [][\A w \in Workers :
       /\ (Returns(w) /\ last'[w].op = "refreshAuth" /\ last'[w].status = "ok")
            => /\ fs'[sessionPathOf(last'[w].key)] = NoFile
               /\ \A k \in StoreKeys, t \in TimePoints :
                    k = last'[w].key => isValidOf(k, t)' = Ok(FALSE)
               /\ last'[w].logins = 1
       /\ (/\ Returns(w)
           /\ last'[w].op \in AuthOps
           /\ ~last'[w].skip
           /\ last'[w].prev.status = "ok"
           /\ last'[w].prev.op = "refreshAuth"
           /\ last'[w].prev.key = last'[w].key)
            => last'[w].logins = 1
    ]_vars

\* C29 witness: refreshAuth removed a record and returned, and the next
\* authenticate call for the key, made without skipSessionCache, logged in.
C29_Witness ==
  \E w \in Workers :
    /\ last[w].status = "ok"
    /\ last[w].op \in AuthOps
    /\ ~last[w].skip
    /\ last[w].logins = 1
    /\ last[w].prev.status = "ok"
    /\ last[w].prev.op = "refreshAuth"
    /\ last[w].prev.key = last[w].key
    /\ last[w].prev.cleared = 1

\* C25: the canonical path of a key never holds a partially written record.
C25_CanonicalNeverPartial ==
  \A k \in StoreKeys : fs[sessionPathOf(k)].kind # "torn"

\* C26: when startAuthenticatedSession comes to read the session it found
\* valid and the file is gone, it goes on to the login.
C26_EvictedSessionFallsBack ==
  [][\A w \in Workers :
       (/\ pc[w] = "start_read"
        /\ fs[sessionPathOf(call[w].key)] = NoFile
        /\ pc'[w] # "start_read")
         => pc'[w] \in {"login_check", "login_perform"}
    ]_vars

\* C27: the unlink of clearExpiredSessions never removes a record that is
\* live when it is removed.
C27_SweepSparesLiveRecords ==
  [][\A w \in Workers :
       (pc[w] = "sweep_unlink" /\ pc'[w] # "sweep_unlink")
         => \A p \in Paths :
              (fs[p] # NoFile /\ fs'[p] = NoFile) => ~LiveRecordAt(fs[p], now)
    ]_vars

\* C28: when clearExpiredSessions returns normally, no record that was in
\* the directory when it was called and had expired by the time it started
\* is still at its path.
C28_SweepFinishesItsScan ==
  [][\A w \in Workers :
       (/\ Returns(w)
        /\ last'[w].op = "clearExpiredSessions"
        /\ last'[w].status = "ok")
         => \A p \in Paths :
              ExpiredRecordAt(call[w].before[p], call[w].started)
                => fs'[p] # call[w].before[p]
    ]_vars
====
